---- MODULE Spec2Model ----
(***************************************************************************)
(* A model of the Andre single-page client (src/index.tsx): the hash       *)
(* router, the five session slots held by App, the local state of the page *)
(* views and the five fetch calls with their try/catch/finally handlers.   *)
(***************************************************************************)
EXTENDS Naturals, Sequences, FiniteSets, Bags, TLC

VARIABLES
    hash,          \* window.location.hash, a sequence of string pieces
    hashchange,    \* a hashchange event is queued and not yet delivered
    history,       \* the browser's session history around the current entry
    page,          \* App's page state
    transactions,  \* the five session slots of App
    sentiment,
    stockData,
    news,
    analysis,
    file,          \* UploadPage: the selected file
    input,         \* SentimentPage: the text input
    message,       \* SentimentPage: the confirmation text
    isLoading,     \* the loading flag of each API action, in the mounted view
    error,         \* the error message of each API action, in the mounted view
    inflight,      \* a bag of the fetch calls that have not settled
    last           \* history variable: the last event, hashchange deliveries aside,
                   \* with what the properties below need of it

routerVars == <<hash, hashchange, page>>
slots == <<transactions, sentiment, stockData, news, analysis>>
localVars == <<file, input, message, isLoading, error>>
vars == <<hash, hashchange, history, page, transactions, sentiment, stockData, news,
          analysis, file, input, message, isLoading, error, inflight, last>>

---------------------------------------------------------------------------
(* Bounds *)

\* the longest array a response carries
MaxItems == 1
\* the number of fetch calls that may be unsettled at once
MaxInFlight == 2
\* the number of session-history entries kept on each side of the current one
MaxHist == 2

---------------------------------------------------------------------------
(* Values *)

Null == [tag |-> "null"]
Array(items) == [tag |-> "array", items |-> items]
Arrays == {Array([i \in 1..n |-> "item"]) : n \in 0..MaxItems}
Strings == {"", "bullish on tech"}

\* JavaScript truthiness: null is falsy and every array (the empty one too) is
\* truthy; of the strings only '' is falsy.
Truthy(v) == v.tag = "array"
TruthyString(s) == s # ""

NoFile == "null"
CsvFile == "transactions.csv"

Actions == {"upload", "sentiment", "stock", "news", "analyze"}

\* the page paths, as the pieces of the string
UploadPath == <<"/", "upload">>
DashboardPath == <<"/", "dashboard">>
SentimentPath == <<"/", "sentiment">>
MarketDataPath == <<"/", "market-data">>
AnalysisPath == <<"/", "analysis">>

navItems == <<DashboardPath, SentimentPath, MarketDataPath, AnalysisPath>>

\* `#${newPage}`
Fragment(path) == <<"#">> \o path

KnownFragments == {Fragment(UploadPath), Fragment(DashboardPath), Fragment(SentimentPath),
                   Fragment(MarketDataPath), Fragment(AnalysisPath)}
\* the fragments a URL is loaded or edited with
Fragments == KnownFragments \cup {<<>>, <<"#">>, <<"#", "/">>, <<"#", "/", "foo">>}

---------------------------------------------------------------------------
(* Router *)

\* a faulty variant: the '#/' case forgotten
getCurrentPage_NoSlashCase(h) ==
    IF h = <<>> \/ h = <<"#">>
    THEN UploadPath
    ELSE Tail(h)

getCurrentPage(h) ==
    IF h = <<>> \/ h = <<"#">> \/ h = <<"#", "/">>
    THEN UploadPath
    ELSE Tail(h)

renderPage(p) ==
    CASE p = DashboardPath -> "DashboardPage"
      [] p = SentimentPath -> "SentimentPage"
      [] p = MarketDataPath -> "MarketDataPage"
      [] p = AnalysisPath -> "AnalysisPage"
      [] OTHER -> "UploadPage"

isUploadPage(p) == p = UploadPath

\* What App renders for a page: the bare UploadPage, or Nav and Header around
\* renderPage(). The two are different positions of the tree, so a change of
\* View unmounts the page view and mounts a fresh one.
View(p) ==
    IF isUploadPage(p)
    THEN [chrome |-> FALSE, view |-> "UploadPage"]
    ELSE [chrome |-> TRUE, view |-> renderPage(p)]

Mounted(v) == View(page).view = v
Chrome == View(page).chrome

\* the view that owns each API action
Owner(a) ==
    CASE a = "upload" -> "UploadPage"
      [] a = "sentiment" -> "SentimentPage"
      [] a \in {"stock", "news"} -> "MarketDataPage"
      [] a = "analyze" -> "AnalysisPage"

---------------------------------------------------------------------------
(* Error messages *)

SelectFileMsg == "Please select a CSV file to upload."
PrerequisitesMsg == "Please ensure you have uploaded transactions, logged sentiment, and fetched market data/news before analyzing."
UnexpectedMsg == "An unexpected error occurred."
\* the message of the TypeError a fetch rejects with
FetchFailedMsg == "Failed to fetch"
\* the message of the SyntaxError response.json() rejects with
JsonParseMsg == "Unexpected token < in JSON"
ServerMsg == "server error"

\* the fallback of `data.message || ...` in each handler
GenericMsg(a, status) ==
    CASE a = "upload" -> (IF status = 500 THEN "Server error: 500" ELSE "Server error: 404")
      [] a = "sentiment" -> "Failed to submit sentiment"
      [] a = "stock" -> "Failed to fetch stock data"
      [] a = "news" -> "Failed to fetch news"
      [] a = "analyze" -> "Analysis failed"

\* `Sentiment captured: "${data.sentiment}"`
CapturedMsg(s) == <<"Sentiment captured: \"", s, "\"">>

---------------------------------------------------------------------------
(* The network: how a fetch call can settle *)

NetFail == [kind |-> "reject"]
Unparsable == [kind |-> "text"]
Json(msg, payload) == [kind |-> "json", message |-> msg, payload |-> payload]
Response(ok, status, body) == [kind |-> "response", ok |-> ok, status |-> status, body |-> body]

\* the field of a success body each handler reads: preview, sentiment, data,
\* headlines, recommendations
Payloads(a) == IF a = "sentiment" THEN Strings ELSE Arrays

Outcomes(a) ==
    {NetFail, Response(TRUE, 200, Unparsable), Response(FALSE, 500, Unparsable),
     Response(FALSE, 500, Json(ServerMsg, Null)), Response(FALSE, 500, Json("", Null))}
    \cup {Response(TRUE, 200, Json("", d)) : d \in Payloads(a)}

\* What the try block of a handler throws for an outcome: "" when it runs to
\* its end.
Thrown(a, o) ==
    IF o.kind = "reject" THEN FetchFailedMsg
    ELSE IF o.body.kind = "text" THEN JsonParseMsg
    ELSE IF ~o.ok
         THEN (IF o.body.message # "" THEN o.body.message ELSE GenericMsg(a, o.status))
         ELSE ""

Succeeds(a, o) == Thrown(a, o) = ""

\* the message the catch block sets
Caught(a, o) ==
    IF a = "upload"
    THEN (IF Thrown(a, o) # "" THEN Thrown(a, o) ELSE UnexpectedMsg)
    ELSE Thrown(a, o)

Request(a, body) == [action |-> a, live |-> TRUE, body |-> body]

Unsettled == BagCardinality(inflight)
InFlight(a) == {r \in BagToSet(inflight) : r.action = a}
CountOf(bag, a) ==
    BagCardinality([r \in {x \in BagToSet(bag) : x.action = a} |-> bag[r]])

\* The calls of an unmounted view: their setters of local state no longer
\* reach a mounted component.
Orphan(r) == [r EXCEPT !.live = FALSE]
Orphaned(bag) ==
    LET S == BagToSet(bag)
        n(r) == IF r \in S THEN bag[r] ELSE 0
    IN  [d \in {Orphan(r) : r \in S} |-> n(d) + n([d EXCEPT !.live = TRUE])]

---------------------------------------------------------------------------
(* Initial state: App mounted on a freshly loaded URL *)

NoLoading == [a \in Actions |-> FALSE]
NoError == [a \in Actions |-> ""]
NoHistory == [back |-> <<>>, forward |-> <<>>]
NoEvent == [op |-> "other"]

Init ==
    /\ hash \in Fragments
    /\ hashchange = FALSE
    /\ history = NoHistory
    /\ page = getCurrentPage(hash)
    /\ transactions = Null
    /\ sentiment = ""
    /\ stockData = Null
    /\ news = Null
    /\ analysis = Null
    /\ file = NoFile
    /\ input = ""
    /\ message = <<>>
    /\ isLoading = NoLoading
    /\ error = NoError
    /\ inflight = EmptyBag
    /\ last = NoEvent

---------------------------------------------------------------------------
(* App *)

\* a faulty variant: the '#' forgotten
navigate_WithoutHashSign(newPage) ==
    /\ hash' = newPage
    /\ hashchange' = (hashchange \/ newPage # hash)

\* Writing window.location.hash: a different fragment queues a hashchange
\* event, the same fragment does nothing.
navigate(newPage) ==
    /\ hash' = Fragment(newPage)
    /\ hashchange' = (hashchange \/ Fragment(newPage) # hash)

\* The hashchange listener: setPage(getCurrentPage()). A page that changes what
\* App renders unmounts the page view: the new one starts from its useState
\* defaults, and the unsettled calls of the old one are orphaned.
handleHashChange ==
    /\ hashchange
    /\ hashchange' = FALSE
    /\ page' = getCurrentPage(hash)
    /\ IF View(getCurrentPage(hash)) # View(page)
       THEN /\ file' = NoFile
            /\ input' = ""
            /\ message' = <<>>
            /\ isLoading' = NoLoading
            /\ error' = NoError
            /\ inflight' = Orphaned(inflight)
       ELSE UNCHANGED <<localVars, inflight>>
    /\ UNCHANGED <<hash, history, slots, last>>

\* a faulty variant: setAnalysis(null) forgotten
logout_KeepsAnalysis ==
    /\ transactions' = Null
    /\ sentiment' = ""
    /\ stockData' = Null
    /\ news' = Null
    /\ analysis' = analysis
    /\ navigate(UploadPath)

\* the five setters of logout, then navigate('/upload')
logout ==
    /\ transactions' = Null
    /\ sentiment' = ""
    /\ stockData' = Null
    /\ news' = Null
    /\ analysis' = Null
    /\ navigate(UploadPath)

---------------------------------------------------------------------------
(* Events of the application. Each is a whole handler; the hashchange that *)
(* a navigate queues is delivered by a later HashChange step.              *)

HashChange == handleHashChange

\* a button of Nav, rendered when the page is not '/upload'
clickNav(i) ==
    /\ Chrome
    /\ navigate(navItems[i])
    /\ UNCHANGED <<page, slots, localVars, inflight>>

\* the button of Header, rendered when the page is not '/upload'
clickLogout ==
    /\ Chrome
    /\ logout
    /\ UNCHANGED <<page, localVars, inflight>>

\* The application leaves the browser's session history alone, no code reads
\* it, and of the events it remembers a logout.
Untracked == UNCHANGED history
Other == last' = NoEvent

NavClick(i) == clickNav(i) /\ Untracked /\ Other

Logout ==
    /\ clickLogout
    /\ Untracked
    /\ last' = [op |-> "logout", again |-> last.op = "logout"]

(* UploadPage *)

handleFileChange(f) ==
    /\ Mounted("UploadPage")
    /\ file' = f
    /\ error' = [error EXCEPT !["upload"] = ""]
    /\ UNCHANGED <<routerVars, slots, input, message, isLoading, inflight>>
    /\ Untracked /\ Other

\* a faulty variant: the check of the file forgotten
UploadSubmit_WithoutFileCheck ==
    /\ Mounted("UploadPage")
    /\ ~isLoading["upload"]
    /\ Unsettled < MaxInFlight
    /\ isLoading' = [isLoading EXCEPT !["upload"] = TRUE]
    /\ error' = [error EXCEPT !["upload"] = ""]
    /\ inflight' = inflight (+) SetToBag({Request("upload", [file |-> file])})
    /\ UNCHANGED <<routerVars, slots, file, input, message>>
    /\ Untracked /\ Other

\* UploadPage.handleSubmit up to its await; the submit button is disabled while
\* isLoading.
UploadSubmit ==
    /\ Mounted("UploadPage")
    /\ ~isLoading["upload"]
    /\ IF file = NoFile
       THEN /\ error' = [error EXCEPT !["upload"] = SelectFileMsg]
            /\ UNCHANGED <<isLoading, inflight>>
       ELSE /\ Unsettled < MaxInFlight
            /\ isLoading' = [isLoading EXCEPT !["upload"] = TRUE]
            /\ error' = [error EXCEPT !["upload"] = ""]
            /\ inflight' = inflight (+) SetToBag({Request("upload", [file |-> file])})
    /\ UNCHANGED <<routerVars, slots, file, input, message>>
    /\ Untracked /\ Other

(* SentimentPage *)

SentimentInput(s) ==
    /\ Mounted("SentimentPage")
    /\ input' = s
    /\ UNCHANGED <<routerVars, slots, file, message, isLoading, error, inflight>>
    /\ Untracked /\ Other

\* a faulty variant: the stored sentiment posted in place of the input
SentimentSubmit_PostsStoredSentiment ==
    /\ Mounted("SentimentPage")
    /\ ~isLoading["sentiment"]
    /\ Unsettled < MaxInFlight
    /\ isLoading' = [isLoading EXCEPT !["sentiment"] = TRUE]
    /\ error' = [error EXCEPT !["sentiment"] = ""]
    /\ message' = <<>>
    /\ inflight' = inflight (+) SetToBag({Request("sentiment",
                        [user_id |-> "default-user", sentiment |-> sentiment])})
    /\ UNCHANGED <<routerVars, slots, file, input>>
    /\ Untracked /\ Other

\* SentimentPage.handleSubmit up to its await
SentimentSubmit ==
    /\ Mounted("SentimentPage")
    /\ ~isLoading["sentiment"]
    /\ Unsettled < MaxInFlight
    /\ isLoading' = [isLoading EXCEPT !["sentiment"] = TRUE]
    /\ error' = [error EXCEPT !["sentiment"] = ""]
    /\ message' = <<>>
    /\ inflight' = inflight (+) SetToBag({Request("sentiment",
                        [user_id |-> "default-user", sentiment |-> input])})
    /\ UNCHANGED <<routerVars, slots, file, input>>
    /\ Untracked /\ Other

(* MarketDataPage *)

\* a faulty variant: setError({stock: '', news: ''}) in place of the functional update
FetchStockData_ClearsBothErrors ==
    /\ Mounted("MarketDataPage")
    /\ ~isLoading["stock"]
    /\ Unsettled < MaxInFlight
    /\ isLoading' = [isLoading EXCEPT !["stock"] = TRUE]
    /\ error' = [error EXCEPT !["stock"] = "", !["news"] = ""]
    /\ inflight' = inflight (+) SetToBag({Request("stock", [tickers |-> "AAPL,GOOG,MSFT"])})
    /\ UNCHANGED <<routerVars, slots, file, input, message>>
    /\ Untracked /\ Other

\* fetchStockData up to its await
FetchStockData ==
    /\ Mounted("MarketDataPage")
    /\ ~isLoading["stock"]
    /\ Unsettled < MaxInFlight
    /\ isLoading' = [isLoading EXCEPT !["stock"] = TRUE]
    /\ error' = [error EXCEPT !["stock"] = ""]
    /\ inflight' = inflight (+) SetToBag({Request("stock", [tickers |-> "AAPL,GOOG,MSFT"])})
    /\ UNCHANGED <<routerVars, slots, file, input, message>>
    /\ Untracked /\ Other

\* fetchNews up to its await
FetchNews ==
    /\ Mounted("MarketDataPage")
    /\ ~isLoading["news"]
    /\ Unsettled < MaxInFlight
    /\ isLoading' = [isLoading EXCEPT !["news"] = TRUE]
    /\ error' = [error EXCEPT !["news"] = ""]
    /\ inflight' = inflight (+) SetToBag({Request("news", [tickers |-> "AAPL,GOOG,MSFT"])})
    /\ UNCHANGED <<routerVars, slots, file, input, message>>
    /\ Untracked /\ Other

(* AnalysisPage *)

\* a faulty variant: news left out of the conjunction
canAnalyze_WithoutNews ==
    Truthy(transactions) /\ TruthyString(sentiment) /\ Truthy(stockData)

canAnalyze ==
    Truthy(transactions) /\ TruthyString(sentiment) /\ Truthy(stockData) /\ Truthy(news)

\* AnalysisPage.handleAnalysis up to its await; the button is disabled while
\* isLoading or not canAnalyze.
AnalysisClick ==
    /\ Mounted("AnalysisPage")
    /\ ~(isLoading["analyze"] \/ ~canAnalyze)
    /\ IF ~canAnalyze
       THEN /\ error' = [error EXCEPT !["analyze"] = PrerequisitesMsg]
            /\ UNCHANGED <<isLoading, inflight>>
       ELSE /\ Unsettled < MaxInFlight
            /\ isLoading' = [isLoading EXCEPT !["analyze"] = TRUE]
            /\ error' = [error EXCEPT !["analyze"] = ""]
            /\ inflight' = inflight (+) SetToBag({Request("analyze",
                                [user_id |-> "default-user", sentiment |-> sentiment])})
    /\ UNCHANGED <<routerVars, slots, file, input, message>>
    /\ Untracked /\ Other

---------------------------------------------------------------------------
(* A fetch call settles: the rest of its handler runs, try, catch, finally. *)

\* the setter of App the try block of action a calls with the payload
SetSlot(a, d) ==
    /\ transactions' = IF a = "upload" THEN d ELSE transactions
    /\ sentiment' = IF a = "sentiment" THEN d ELSE sentiment
    /\ stockData' = IF a = "stock" THEN d ELSE stockData
    /\ news' = IF a = "news" THEN d ELSE news
    /\ analysis' = IF a = "analyze" THEN d ELSE analysis

\* a faulty variant: navigate('/dashboard') forgotten
OnSuccess_WithoutNavigate(r, o) ==
    /\ SetSlot(r.action, o.body.payload)
    /\ UNCHANGED <<hash, hashchange>>
    /\ message' = IF r.action = "sentiment" /\ r.live
                  THEN CapturedMsg(o.body.payload) ELSE message
    /\ input' = IF r.action = "sentiment" /\ r.live THEN "" ELSE input
    /\ error' = error

\* the end of the try block
OnSuccess(r, o) ==
    /\ SetSlot(r.action, o.body.payload)
    /\ IF r.action = "upload" THEN navigate(DashboardPath) ELSE UNCHANGED <<hash, hashchange>>
    /\ message' = IF r.action = "sentiment" /\ r.live
                  THEN CapturedMsg(o.body.payload) ELSE message
    /\ input' = IF r.action = "sentiment" /\ r.live THEN "" ELSE input
    /\ error' = error

\* a faulty variant: the catch block also resets the slot of its action
OnFailure_ResetsSlot(r, o) ==
    /\ error' = IF r.live THEN [error EXCEPT ![r.action] = Caught(r.action, o)] ELSE error
    /\ SetSlot(r.action, IF r.action = "sentiment" THEN "" ELSE Null)
    /\ UNCHANGED <<hash, hashchange, message, input>>

\* the catch block
OnFailure(r, o) ==
    /\ error' = IF r.live THEN [error EXCEPT ![r.action] = Caught(r.action, o)] ELSE error
    /\ UNCHANGED <<hash, hashchange, slots, message, input>>

\* a faulty variant: no finally block
Finally_Missing(r) == isLoading' = isLoading

\* the finally block
Finally(r) ==
    isLoading' = IF r.live THEN [isLoading EXCEPT ![r.action] = FALSE] ELSE isLoading

Settle(r, o) ==
    /\ IF Succeeds(r.action, o) THEN OnSuccess(r, o) ELSE OnFailure(r, o)
    /\ Finally(r)
    /\ inflight' = inflight (-) SetToBag({r})
    /\ UNCHANGED <<page, file>>

Receive ==
    /\ \E r \in BagToSet(inflight) : \E o \in Outcomes(r.action) : Settle(r, o)
    /\ Untracked /\ Other

---------------------------------------------------------------------------
(* The application *)

Next ==
    \/ HashChange
    \/ \E i \in DOMAIN navItems : NavClick(i)
    \/ Logout
    \/ \E f \in {NoFile, CsvFile} : handleFileChange(f)
    \/ UploadSubmit
    \/ \E s \in Strings : SentimentInput(s)
    \/ SentimentSubmit
    \/ FetchStockData
    \/ FetchNews
    \/ AnalysisClick
    \/ Receive

Spec == Init /\ [][Next]_vars

---------------------------------------------------------------------------
(* The router in the browser: the session history, the back and forward    *)
(* buttons and the address bar, with the views left idle.                  *)

\* the last n entries of a sequence, the first n entries
LastN(q, n) == IF Len(q) <= n THEN q ELSE SubSeq(q, Len(q) - n + 1, Len(q))
FirstN(q, n) == IF Len(q) <= n THEN q ELSE SubSeq(q, 1, n)

\* A navigation to a different fragment adds an entry after the current one
\* and drops the entries ahead; to the same fragment it adds none.
Recorded ==
    history' = IF hash' # hash
               THEN [back |-> LastN(Append(history.back, hash), MaxHist), forward |-> <<>>]
               ELSE history

BrowserNavClick(i) ==
    /\ clickNav(i)
    /\ Recorded
    /\ last' = [op |-> "navigate", to |-> navItems[i], from |-> page,
                moved |-> Fragment(navItems[i]) # hash, synced |-> ~hashchange]

BrowserLogout ==
    /\ clickLogout
    /\ Recorded
    /\ last' = [op |-> "logout", again |-> last.op = "logout"]

\* the user edits the fragment in the address bar
EditFragment(f) ==
    /\ f # hash
    /\ hash' = f
    /\ hashchange' = TRUE
    /\ Recorded
    /\ Other
    /\ UNCHANGED <<page, slots, localVars, inflight>>

\* the browser's back button
Back ==
    /\ history.back # <<>>
    /\ hash' = history.back[Len(history.back)]
    /\ hashchange' = TRUE
    /\ history' = [back |-> SubSeq(history.back, 1, Len(history.back) - 1),
                   forward |-> FirstN(<<hash>> \o history.forward, MaxHist)]
    /\ last' = [op |-> "back", after |-> IF last.op = "navigate" THEN last ELSE NoEvent]
    /\ UNCHANGED <<page, slots, localVars, inflight>>

\* the browser's forward button
Forward ==
    /\ history.forward # <<>>
    /\ hash' = Head(history.forward)
    /\ hashchange' = TRUE
    /\ history' = [back |-> LastN(Append(history.back, hash), MaxHist),
                   forward |-> Tail(history.forward)]
    /\ Other
    /\ UNCHANGED <<page, slots, localVars, inflight>>

NextNav ==
    \/ HashChange
    \/ \E i \in DOMAIN navItems : BrowserNavClick(i)
    \/ BrowserLogout
    \/ \E f \in Fragments \ {<<>>} : EditFragment(f)
    \/ Back
    \/ Forward

SpecNav == Init /\ [][NextNav]_vars

---------------------------------------------------------------------------
(* Properties *)

Present(v) == v # Null
NonEmpty(v) == IF v = Null THEN FALSE ELSE Len(v.items) > 0
SlotsEmpty ==
    /\ transactions = Null
    /\ sentiment = ""
    /\ stockData = Null
    /\ news = Null
    /\ analysis = Null

\* this step issues a request of action a
Issued(a) == inflight' # inflight /\ CountOf(inflight', a) > CountOf(inflight, a)
\* this step settles a request of action a
Settled(a) == inflight' # inflight /\ CountOf(inflight', a) < CountOf(inflight, a)

Prerequisites == Present(transactions) /\ sentiment # "" /\ Present(stockData) /\ Present(news)

\* C1, the claim as stated: a request to /analyze is issued only when
\* transactions, sentiment, stockData and news are all non-empty.
C1_OnlyWhenAllNonEmpty ==
    [][Issued("analyze") =>
         NonEmpty(transactions) /\ sentiment # "" /\ NonEmpty(stockData) /\ NonEmpty(news)]_vars

\* C1, as amended: a request to /analyze is issued only when transactions,
\* stockData and news are present (not null; an empty array counts as present)
\* and sentiment is not the empty string. When one of the four is missing the
\* Analysis action is blocked: on the Analysis page no click is possible, so no
\* request is issued and the analysis slot is not written by it.
C1_AnalysisNeedsPrerequisites ==
    /\ [](Mounted("AnalysisPage") /\ ~Prerequisites => ~ENABLED AnalysisClick)
    /\ [][Issued("analyze") => Prerequisites]_vars

\* C1 witness: an analysis request is in flight, issued over an empty
\* transactions array.
C1_Witness ==
    /\ \E r \in InFlight("analyze") : r.live
    /\ isLoading["analyze"]
    /\ transactions = Array(<<>>)
    /\ Prerequisites

ResolvesToUpload == {<<>>, <<"#">>, <<"#", "/">>}

\* C2, the claim as stated: every fragment outside the five known values gives
\* the page state and the rendering of #/upload.
C2_UnknownIsUpload ==
    (~hashchange /\ hash \notin KnownFragments) =>
        page = UploadPath /\ View(page) = View(UploadPath)

\* C2, as amended: for the empty fragment, '#' and '#/' the page state is
\* '/upload' and the Upload view is rendered bare, as for #/upload; for every
\* other unknown fragment the page state is the fragment without its '#' and the
\* Upload view is rendered inside the header and side navigation.
C2_UnknownFragments ==
    (~hashchange /\ hash \notin KnownFragments) =>
        /\ Mounted("UploadPage")
        /\ hash \in ResolvesToUpload => page = <<"/", "upload">> /\ ~Chrome
        /\ hash \notin ResolvesToUpload => page = Tail(hash) /\ Chrome

\* C2 witness: an unknown fragment has been entered in the address bar and its
\* hashchange delivered.
C2_Witness ==
    /\ ~hashchange
    /\ history.back # <<>>
    /\ hash = <<"#", "/", "foo">>
    /\ Mounted("UploadPage")
    /\ Chrome

\* C3: after logout, and after its hashchange is delivered, the five slots are
\* in their empty state and the page is upload; a second logout right after the
\* first changes nothing.
C3_LogoutResets ==
    /\ [](last.op = "logout" =>
            /\ transactions = Null /\ stockData = Null /\ news = Null /\ analysis = Null
            /\ sentiment = ""
            /\ hash = <<"#", "/", "upload">>
            /\ ~hashchange => page = <<"/", "upload">> /\ ~Chrome)
    /\ [][(last.op = "logout" /\ Logout) =>
            UNCHANGED <<routerVars, history, slots, localVars, inflight>>]_vars

\* C3 witness: logout has been called twice in succession.
C3_Witness == last = [op |-> "logout", again |-> TRUE]

\* C4, the claim as stated: from any page, navigate('/dashboard') and a browser
\* back restore the page that was current before the navigate.
C4_BackRestoresFromAnyPage ==
    (/\ last.op = "back"
     /\ last.after.op = "navigate"
     /\ last.after.to = DashboardPath
     /\ last.after.synced
     /\ ~hashchange) => page = last.after.from

\* C4, as amended: after navigate('/dashboard') the current page read from the
\* fragment is '/dashboard'; when the navigate was made with no hashchange
\* pending and from a fragment other than '#/dashboard' (so that it added a
\* history entry), a browser back, its hashchange delivered, restores the page
\* that was current before the navigate; the page state changes only when a
\* delivered hashchange re-reads the fragment.
C4_RoundTrip ==
    /\ [](last.op = "navigate" /\ last.to = DashboardPath =>
            getCurrentPage(hash) = <<"/", "dashboard">>)
    /\ []((/\ last.op = "back"
           /\ last.after.op = "navigate"
           /\ last.after.to = DashboardPath
           /\ last.after.moved
           /\ last.after.synced
           /\ ~hashchange) => page = last.after.from)
    /\ [][page' # page => hashchange /\ page' = getCurrentPage(hash)]_vars

\* C4 witness: a navigate to the dashboard from another page, then a back, and
\* every hashchange delivered.
C4_Witness ==
    /\ last.op = "back"
    /\ last.after.op = "navigate"
    /\ last.after.to = DashboardPath
    /\ last.after.moved
    /\ last.after.synced
    /\ ~hashchange
    /\ page = last.after.from
    /\ page # DashboardPath

\* C5: a response that arrives after logout, to a request that was in flight
\* when logout was called, leaves the five slots in their empty state.
C5_LateResponseIgnored ==
    [][(last.op = "logout" /\ \E a \in Actions : Settled(a)) => SlotsEmpty']_vars

\* this step settles a request of action a whose view is still mounted
LiveSettled(a) ==
    \E r \in InFlight(a) : r.live /\ inflight' = inflight (-) SetToBag({r})

\* C6: when a call of one of the five API actions settles, by a success
\* response, a non-success status, an unparsable body or a transport failure,
\* the loading flag its action set is cleared.
C6_LoadingCleared ==
    [][inflight' # inflight =>
         \A a \in Actions : LiveSettled(a) => isLoading[a] /\ ~isLoading'[a]]_vars

\* C6 witness: a stock-data call has settled with an unparsable body and its
\* loading flag is off.
C6_Witness ==
    /\ Mounted("MarketDataPage")
    /\ error["stock"] = JsonParseMsg
    /\ ~isLoading["stock"]
    /\ InFlight("stock") = {}

\* C7: starting or settling a stock-data fetch changes only the stock loading
\* flag, the stock error and the stockData slot, never those of news, and the
\* other way round; the two can be in flight together.
C7_MarketFetchesIndependent ==
    [][/\ (Issued("stock") \/ Settled("stock")) =>
            /\ isLoading'["news"] = isLoading["news"]
            /\ error'["news"] = error["news"]
            /\ news' = news
       /\ (Issued("news") \/ Settled("news")) =>
            /\ isLoading'["stock"] = isLoading["stock"]
            /\ error'["stock"] = error["stock"]
            /\ stockData' = stockData]_vars

\* C7 witness: a stock fetch has failed with the server's message while a news
\* fetch is in flight, its loading flag on and its error empty.
C7_Witness ==
    /\ Mounted("MarketDataPage")
    /\ error["stock"] = ServerMsg
    /\ ~isLoading["stock"]
    /\ isLoading["news"]
    /\ error["news"] = ""
    /\ \E r \in InFlight("news") : r.live

SuccessResponse(o) == o.kind = "response" /\ o.ok /\ o.body.kind = "json"
FailedCall(o) == o.kind = "reject" \/ ~o.ok

\* C8: when an upload settles with a success response the transactions slot is
\* the response's preview and the app navigates to the dashboard; when it
\* settles otherwise the error is shown, the transactions slot is unchanged and
\* nothing navigates.
C8_UploadOutcome ==
    /\ [](~hashchange => page = getCurrentPage(hash))
    /\ [][inflight' # inflight =>
          \A r \in InFlight("upload") : \A o \in Outcomes("upload") :
            Settle(r, o) =>
                IF SuccessResponse(o)
                THEN /\ transactions' = o.body.payload
                     /\ hash' = <<"#", "/", "dashboard">>
                     /\ hash' # hash => hashchange'
                ELSE /\ transactions' = transactions
                     /\ hash' = hash /\ hashchange' = hashchange /\ page' = page
                     /\ r.live => error'["upload"] # ""]_vars

\* C8 witness: an upload made on the upload page has succeeded: the preview is
\* stored and the dashboard fragment is written, its hashchange not yet
\* delivered.
C8_Witness ==
    /\ page = UploadPath
    /\ hash = Fragment(DashboardPath)
    /\ hashchange
    /\ transactions \in Arrays
    /\ ~isLoading["upload"]
    /\ inflight = EmptyBag

\* C9: submitting the Upload form with no file selected sets the error 'Please
\* select a CSV file to upload.', issues no request, does not set the loading
\* flag and leaves the transactions slot and the page unchanged.
C9_NoFileNoRequest ==
    [][(UploadSubmit /\ file = NoFile) =>
         /\ error'["upload"] = "Please select a CSV file to upload."
         /\ inflight' = inflight
         /\ ~isLoading'["upload"]
         /\ transactions' = transactions
         /\ page' = page /\ hash' = hash /\ hashchange' = hashchange]_vars

\* C9 witness: the validation error is shown, with no file and nothing in flight.
C9_Witness ==
    /\ Mounted("UploadPage")
    /\ file = NoFile
    /\ error["upload"] = SelectFileMsg
    /\ ~isLoading["upload"]
    /\ inflight = EmptyBag

\* C10: a call that fails, by a non-success status or a transport failure,
\* leaves the five slots and the fragment unchanged and changes only the error
\* and the loading flag of its own action; the slots change only by a success
\* response or by logout.
C10_FailuresAreLocal ==
    /\ [][inflight' # inflight =>
          \A r \in BagToSet(inflight) : \A o \in Outcomes(r.action) :
            (FailedCall(o) /\ inflight' = inflight (-) SetToBag({r}) /\ Settle(r, o)) =>
                /\ UNCHANGED <<slots, hash, hashchange, page, file, input, message>>
                /\ \A b \in Actions \ {r.action} :
                        error'[b] = error[b] /\ isLoading'[b] = isLoading[b]]_vars
    /\ [][slots' # slots =>
            \/ clickLogout
            \/ \E r \in BagToSet(inflight) : \E o \in Outcomes(r.action) :
                    SuccessResponse(o) /\ Settle(r, o)]_vars

\* C10 witness: a sentiment submission has failed with the server's message and
\* the sentiment stored before it is still there.
C10_Witness ==
    /\ Mounted("SentimentPage")
    /\ error["sentiment"] = ServerMsg
    /\ ~isLoading["sentiment"]
    /\ sentiment = "bullish on tech"
    /\ transactions # Null

\* the message the claim expects of a failed call: the server's message when
\* the body carries one, else the generic message of the action for the status
ExpectedMsg(a, o) ==
    IF o.body.kind = "json" /\ o.body.message # ""
    THEN o.body.message
    ELSE GenericMsg(a, o.status)

\* C11: when a call of one of the five API actions settles with a non-success
\* status, the error shown is the server's message when the body has one and
\* the generic message for the status otherwise; when it settles with a
\* transport failure, the error shown is a generic failure message.
C11_ErrorMessages ==
    [][inflight' # inflight =>
         \A r \in BagToSet(inflight) : \A o \in Outcomes(r.action) :
           (r.live /\ FailedCall(o) /\ inflight' = inflight (-) SetToBag({r}) /\ Settle(r, o)) =>
               IF o.kind = "reject"
               THEN error'[r.action] \in {FetchFailedMsg, UnexpectedMsg}
               ELSE error'[r.action] = ExpectedMsg(r.action, o)]_vars

\* C12: a Sentiment submission posts the input with the user identifier
\* 'default-user'. When it settles with a success response the sentiment slot
\* is the echoed value and, in the view that made the submission, the
\* confirmation text contains that string; when it settles otherwise the
\* sentiment slot is unchanged and that view shows an error. Once it has settled
\* the loading flag is off, and whenever the Sentiment view has no submission
\* of its own in flight a new one can be made.
C12_SentimentSubmission ==
    /\ [][Issued("sentiment") =>
            inflight' = inflight (+) SetToBag({[action |-> "sentiment", live |-> TRUE,
                            body |-> [user_id |-> "default-user", sentiment |-> input]]})]_vars
    /\ [][inflight' # inflight =>
          \A r \in InFlight("sentiment") : \A o \in Outcomes("sentiment") :
            (inflight' = inflight (-) SetToBag({r}) /\ Settle(r, o)) =>
                /\ IF SuccessResponse(o)
                   THEN /\ sentiment' = o.body.payload
                        /\ r.live => \E i \in DOMAIN message' : message'[i] = o.body.payload
                   ELSE /\ sentiment' = sentiment
                        /\ r.live => error'["sentiment"] # ""
                /\ r.live => ~isLoading'["sentiment"]]_vars
    /\ []((/\ Mounted("SentimentPage")
           /\ \A r \in InFlight("sentiment") : ~r.live
           /\ Unsettled < MaxInFlight) => ENABLED SentimentSubmit)

\* C12 witness: a submission has succeeded: the echoed value is stored and
\* quoted in the confirmation text, the input is cleared and the form can be
\* submitted again.
C12_Witness ==
    /\ Mounted("SentimentPage")
    /\ sentiment = "bullish on tech"
    /\ message = <<"Sentiment captured: \"", "bullish on tech", "\"">>
    /\ input = ""
    /\ ~isLoading["sentiment"]
    /\ InFlight("sentiment") = {}
    /\ ENABLED SentimentSubmit

\* C13: of each API action at most one request is in flight at any time,
\* whatever the clicks and navigations, so that no request writes its slot
\* while another request of the same action is in flight.
C13_AtMostOneInFlight ==
    /\ [](\A a \in Actions : CountOf(inflight, a) <= 1)
    /\ [][slots' # slots =>
            \A a \in Actions : Settled(a) => CountOf(inflight, a) = 1]_vars

====
